---- MODULE Spec2Model ----
(***************************************************************************)
(* A model of the picoc virtual machine (crate picoc_vm) and of the        *)
(* command-line driver (crate picoc_vm_cli).                               *)
(*                                                                         *)
(* Representation of the data:                                             *)
(*  - a String is a sequence of one-character strings, so that             *)
(*    splitting, trimming, lower-casing, parsing and formatting are        *)
(*    computed and not assumed;                                            *)
(*  - an i32 is an integer of I32_MIN..I32_MAX; i32 arithmetic wraps in a  *)
(*    build without overflow checks and panics in a build with them;       *)
(*  - a usize is written in two's complement: v >= 0 stands for v, and     *)
(*    v < 0 stands for 2^64 + v (a 64-bit target).  The casts `as i32` and *)
(*    `as usize` between the sign-extended i32 range and usize are then    *)
(*    the identity on the representation;                                  *)
(*  - the stack, a Vec<i32> of VM_STACK_SIZE cells, is the function of its *)
(*    non-zero cells: a cell outside its domain holds 0.                   *)
(***************************************************************************)
EXTENDS Integers, Sequences, FiniteSets, TLC

VM_INST_MEMORY_SIZE == 10000
VM_STACK_SIZE == 10000

I32_MAX == 2147483647
I32_MIN == (-I32_MAX) - 1

(***************************************************************************)
(* i32 arithmetic                                                          *)
(***************************************************************************)
AddOverflows(a, b) ==
    \/ b > 0 /\ a > I32_MAX - b
    \/ b < 0 /\ a < I32_MIN - b

\* a.wrapping_add(b)
WrapAdd(a, b) ==
    IF b > 0 /\ a > I32_MAX - b THEN ((a - I32_MAX) - 1) + ((b - I32_MAX) - 1)
    ELSE IF b < 0 /\ a < I32_MIN - b THEN ((a + I32_MAX) + 1) + ((b + I32_MAX) + 1)
    ELSE a + b

SubOverflows(a, b) ==
    \/ b < 0 /\ a > I32_MAX + b
    \/ b > 0 /\ a < I32_MIN + b

\* a.wrapping_sub(b)
WrapSub(a, b) ==
    IF b < 0 /\ a > I32_MAX + b THEN ((a - I32_MAX) - 1) - ((b + I32_MAX) + 1)
    ELSE IF b > 0 /\ a < I32_MIN + b THEN ((a + I32_MAX) + 1) - ((b - I32_MAX) - 1)
    ELSE a - b

MulOverflows(a, b) ==
    IF a = 0 \/ b = 0 THEN FALSE
    ELSE IF a = -1 THEN b = I32_MIN
    ELSE IF b = -1 THEN a = I32_MIN
    ELSE IF a > 0 /\ b > 0 THEN a > I32_MAX \div b
    ELSE IF a < 0 /\ b < 0
         THEN a = I32_MIN \/ b = I32_MIN \/ (-a) > I32_MAX \div (-b)
    ELSE LET n == IF a < 0 THEN a ELSE b
             p == IF a < 0 THEN b ELSE a
             \* the least n with n * p >= I32_MIN
             lo == (I32_MIN \div p) + (IF I32_MIN % p # 0 THEN 1 ELSE 0)
         IN  n < lo

RECURSIVE WrapMulNat(_, _)
\* a.wrapping_mul(n) for n >= 0, by doubling
WrapMulNat(a, n) ==
    IF n = 0 THEN 0
    ELSE LET h == WrapMulNat(a, n \div 2)
             d == WrapAdd(h, h)
         IN  IF n % 2 = 1 THEN WrapAdd(d, a) ELSE d

\* a.wrapping_mul(b)
WrapMul(a, b) ==
    IF b >= 0 THEN WrapMulNat(a, b)
    ELSE IF b = I32_MIN THEN (IF a % 2 = 0 THEN 0 ELSE I32_MIN)
    ELSE WrapSub(0, WrapMulNat(a, -b))

\* a / b of i32 (rounds toward zero), for b # 0 and not (a = I32_MIN and b = -1)
TruncDiv(a, b) ==
    LET pos(x, y) == IF x >= 0 THEN x \div y
                     ELSE (x \div y) + (IF x % y # 0 THEN 1 ELSE 0)
    IN  IF b > 0 THEN pos(a, b)
        ELSE IF b = I32_MIN THEN (IF a = I32_MIN THEN 1 ELSE 0)
        ELSE -pos(a, -b)

\* a % b of i32 (sign of the dividend), for b # 0 and not (a = I32_MIN and b = -1)
TruncRem(a, b) ==
    LET pos(x, y) == IF x >= 0 THEN x % y
                     ELSE (IF x % y = 0 THEN 0 ELSE (x % y) - y)
    IN  IF b > 0 THEN pos(a, b)
        ELSE IF b = I32_MIN THEN (IF a = I32_MIN THEN 0 ELSE a)
        ELSE pos(a, -b)

(***************************************************************************)
(* usize, in two's complement                                              *)
(***************************************************************************)
\* a >= b for a usize a and a constant 0 <= b
UsizeGe(a, b) == a < 0 \/ a >= b

\* 2^64 % m, for 0 < m <= 46340
TwoPow64Mod(m) ==
    LET p16 == 65536 % m
        p32 == (p16 * p16) % m
    IN  (p32 * p32) % m

\* a % m for a usize a
UsizeRem(a, m) == IF a >= 0 THEN a % m ELSE (TwoPow64Mod(m) + (a % m)) % m

\* cmp::min of two usize
UsizeMin(a, b) ==
    IF a < 0 /\ b < 0 THEN (IF a <= b THEN a ELSE b)
    ELSE IF a < 0 THEN b
    ELSE IF b < 0 THEN a
    ELSE IF a <= b THEN a ELSE b

(***************************************************************************)
(* Strings                                                                 *)
(***************************************************************************)
Digits == <<"0", "1", "2", "3", "4", "5", "6", "7", "8", "9">>
UpperCase == <<"A", "B", "C", "D", "E", "F", "G", "H", "I", "J", "K", "L", "M",
               "N", "O", "P", "Q", "R", "S", "T", "U", "V", "W", "X", "Y", "Z">>
LowerCase == <<"a", "b", "c", "d", "e", "f", "g", "h", "i", "j", "k", "l", "m",
               "n", "o", "p", "q", "r", "s", "t", "u", "v", "w", "x", "y", "z">>

\* char::is_whitespace, on the characters of the model
is_whitespace(c) == c \in {" ", "\t", "\n", "\r"}

IsDigit(c) == \E i \in 1..10 : Digits[i] = c
DigitVal(c) == (CHOOSE i \in 1..10 : Digits[i] = c) - 1

\* str::to_lowercase
to_lowercase(s) ==
    [i \in 1..Len(s) |->
        IF \E k \in 1..26 : UpperCase[k] = s[i]
        THEN LowerCase[CHOOSE k \in 1..26 : UpperCase[k] = s[i]]
        ELSE s[i]]

\* str::trim
trim(s) ==
    LET keep == {i \in 1..Len(s) : ~is_whitespace(s[i])}
    IN  IF keep = {} THEN <<>>
        ELSE SubSeq(s, CHOOSE i \in keep : \A j \in keep : i <= j,
                       CHOOSE i \in keep : \A j \in keep : j <= i)

RECURSIVE ParseDigits(_, _, _, _)
\* the digit loop of i32::from_str: checked_mul(10), then checked_add or
\* checked_sub of the digit
ParseDigits(s, i, acc, neg) ==
    IF i > Len(s) THEN [ok |-> TRUE, val |-> acc]
    ELSE IF ~IsDigit(s[i]) THEN [ok |-> FALSE, val |-> 0]
    ELSE LET d == DigitVal(s[i])
         IN  IF neg
             THEN IF acc < -(I32_MAX \div 10) \/ acc * 10 < I32_MIN + d
                  THEN [ok |-> FALSE, val |-> 0]
                  ELSE ParseDigits(s, i + 1, acc * 10 - d, neg)
             ELSE IF acc > I32_MAX \div 10 \/ acc * 10 > I32_MAX - d
                  THEN [ok |-> FALSE, val |-> 0]
                  ELSE ParseDigits(s, i + 1, acc * 10 + d, neg)

\* a parse that takes the digits but no sign
ParseUnsigned(s) ==
    IF Len(s) = 0 THEN [ok |-> FALSE, val |-> 0]
    ELSE ParseDigits(s, 1, 0, FALSE)

\* str::parse::<i32>
ParseI32(s) ==
    IF Len(s) = 0 THEN [ok |-> FALSE, val |-> 0]
    ELSE IF s[1] \in {"+", "-"}
         THEN IF Len(s) = 1 THEN [ok |-> FALSE, val |-> 0]
              ELSE ParseDigits(s, 2, 0, s[1] = "-")
    ELSE ParseDigits(s, 1, 0, FALSE)

RECURSIVE NegDigits(_)
\* the decimal digits of -n, for n <= 0
NegDigits(n) ==
    IF n > -10 THEN <<Digits[(-n) + 1]>>
    ELSE LET q == (n \div 10) + (IF n % 10 # 0 THEN 1 ELSE 0)
         IN  NegDigits(q) \o <<Digits[(q * 10 - n) + 1]>>

\* i32::to_string
I32ToString(n) == IF n < 0 THEN <<"-">> \o NegDigits(n) ELSE NegDigits(-n)

(***************************************************************************)
(* Error and Result<(), Error>                                             *)
(***************************************************************************)
Ok == [kind |-> "Ok", arg |-> <<>>]
Err(kind) == [kind |-> kind, arg |-> <<>>]
ErrWith(kind, payload) == [kind |-> kind, arg |-> payload]

(***************************************************************************)
(* Opcode: a record with the variant's name in op, and its payload in n    *)
(* (an i32) or in label (a String)                                         *)
(***************************************************************************)
Mnemonic ==
    [Pushl |-> <<"p", "u", "s", "h", "l">>,
     Storel |-> <<"s", "t", "o", "r", "e", "l">>,
     Storet |-> <<"s", "t", "o", "r", "e", "t">>,
     Pushi |-> <<"p", "u", "s", "h", "i">>,
     Call |-> <<"c", "a", "l", "l">>,
     Ret |-> <<"r", "e", "t">>,
     Enter |-> <<"e", "n", "t", "e", "r">>,
     Leave |-> <<"l", "e", "a", "v", "e">>,
     Mvsp |-> <<"m", "v", "s", "p">>,
     Jp |-> <<"j", "p">>,
     Jt |-> <<"j", "t">>,
     Jf |-> <<"j", "f">>,
     Add |-> <<"a", "d", "d">>,
     Sub |-> <<"s", "u", "b">>,
     Mul |-> <<"m", "u", "l">>,
     Div |-> <<"d", "i", "v">>,
     Mod |-> <<"m", "o", "d">>,
     Eq |-> <<"e", "q">>,
     Ne |-> <<"n", "e">>,
     Gt |-> <<"g", "t">>,
     Ge |-> <<"g", "e">>,
     Lt |-> <<"l", "t">>,
     Le |-> <<"l", "e">>,
     Rd |-> <<"r", "d">>,
     Wr |-> <<"w", "r">>,
     Wrln |-> <<"w", "r", "l", "n">>,
     Halt |-> <<"h", "a", "l", "t">>]

I32Operand == {"Pushl", "Storel", "Storet", "Pushi", "Mvsp"}
LabelOperand == {"Call", "Jp", "Jt", "Jf"}

\* the variant a match arm of from_line builds for the mnemonic op
inst_with_i32(op, num) ==
    LET v == {k \in I32Operand : Mnemonic[k] = op}
    IN  IF v # {} THEN [ok |-> TRUE, op |-> [op |-> CHOOSE k \in v : TRUE, n |-> num]]
        ELSE [ok |-> FALSE, err |-> ErrWith("UnknownOpcode", op)]

inst_with_string(op, str) ==
    LET v == {k \in LabelOperand : Mnemonic[k] = op}
    IN  IF v # {} THEN [ok |-> TRUE, op |-> [op |-> CHOOSE k \in v : TRUE, label |-> str]]
        ELSE [ok |-> FALSE, err |-> ErrWith("UnknownOpcode", op)]

\* Opcode::from_line: Result<Opcode, Error>
from_line(line) ==
    IF Len(line) < 1 THEN [ok |-> FALSE, err |-> Err("OpcodeNotFound")]
    ELSE LET lower == to_lowercase(line[1])
             v == {k \in DOMAIN Mnemonic : Mnemonic[k] = lower}
             k == CHOOSE k \in v : TRUE
         IN  IF v = {} THEN [ok |-> FALSE, err |-> ErrWith("UnknownOpcode", lower)]
             ELSE IF k \in I32Operand
                  THEN IF Len(line) >= 2
                       THEN LET num == ParseI32(line[2])
                            IN  IF num.ok THEN inst_with_i32(lower, num.val)
                                ELSE [ok |-> FALSE, err |-> Err("ParseIntError")]
                       ELSE [ok |-> FALSE, err |-> Err("OperandNotFound")]
             ELSE IF k \in LabelOperand
                  THEN IF Len(line) >= 2
                       THEN inst_with_string(lower, line[2])
                       ELSE [ok |-> FALSE, err |-> Err("OperandNotFound")]
             ELSE [ok |-> TRUE, op |-> [op |-> k]]

\* impl ToString for Opcode
to_string(op) ==
    IF op.op \in I32Operand THEN Mnemonic[op.op] \o <<" ">> \o I32ToString(op.n)
    ELSE IF op.op \in LabelOperand THEN Mnemonic[op.op] \o <<" ">> \o op.label
    ELSE Mnemonic[op.op]

(***************************************************************************)
(* decode.rs.  A code stream is [lines, io_err]: the lines read_line       *)
(* yields, and the number of the read_line call that fails (0: none).      *)
(***************************************************************************)
\* a test for blank lines that finds none
IncludesNothing(s) == FALSE

include_only_whitespace(s) == \A i \in 1..Len(s) : is_whitespace(s[i])

\* the line with its comment
WithComment(buf) == buf

\* buf.split('#').collect::<Vec<_>>()[0]
BeforeHash(buf) ==
    LET h == {i \in 1..Len(buf) : buf[i] = "#"}
    IN  IF h = {} THEN buf
        ELSE SubSeq(buf, 1, (CHOOSE i \in h : \A j \in h : i <= j) - 1)

RECURSIVE SplitWhitespaceFrom(_, _, _, _)
SplitWhitespaceFrom(s, i, cur, acc) ==
    IF i > Len(s) THEN (IF cur = <<>> THEN acc ELSE Append(acc, cur))
    ELSE IF is_whitespace(s[i])
         THEN SplitWhitespaceFrom(s, i + 1, <<>>, IF cur = <<>> THEN acc ELSE Append(acc, cur))
    ELSE SplitWhitespaceFrom(s, i + 1, Append(cur, s[i]), acc)

\* str::split_whitespace
split_whitespace(s) == SplitWhitespaceFrom(s, 1, <<>>, <<>>)

RECURSIVE SplitColons(_, _, _)
\* the for_each closure of split_code, over the words of one line
SplitColons(words, i, line) ==
    IF i > Len(words) THEN line
    ELSE LET elem == words[i]
         IN  IF elem[Len(elem)] = ":"
             THEN SplitColons(words, i + 1,
                              line \o <<SubSeq(elem, 1, Len(elem) - 1), <<":">>>>)
             ELSE SplitColons(words, i + 1, Append(line, elem))

\* one turn of split_code's loop on a line read: the line pushed, or
\* nothing for a blank line
SplitLine(raw) ==
    LET buf == BeforeHash(raw)
    IN  IF include_only_whitespace(buf) THEN <<>>
        ELSE <<SplitColons(split_whitespace(buf), 1, <<>>)>>

RECURSIVE SplitLines(_, _, _)
\* split_code's loop over the lines lo..hi, in order (halving the range
\* keeps the evaluation shallow)
SplitLines(lines, lo, hi) ==
    IF lo > hi THEN <<>>
    ELSE IF lo = hi THEN SplitLine(lines[lo])
    ELSE LET mid == (lo + hi) \div 2
         IN  SplitLines(lines, lo, mid) \o SplitLines(lines, mid + 1, hi)

\* split_code: Result<Vec<Vec<String>>, Error>
split_code(code) ==
    IF code.io_err \in 1..(Len(code.lines) + 1)
    THEN [ok |-> FALSE, err |-> Err("IoError"), lines |-> <<>>]
    ELSE [ok |-> TRUE, err |-> Ok, lines |-> SplitLines(code.lines, 1, Len(code.lines))]

\* an insert that keeps the value of a key that is present
MapInsertFirst(map, key, value) ==
    [k \in DOMAIN map \cup {key} |-> IF k \in DOMAIN map THEN map[k] ELSE value]

\* HashMap::insert
MapInsert(map, key, value) ==
    [k \in DOMAIN map \cup {key} |-> IF k = key THEN value ELSE map[k]]

\* HashMap::clear, HashMap::new
MapClear(map) == [k \in {} |-> 0]

\* a Vec left as it is
VecKept(vec) == vec

\* Vec::clear
VecClear(vec) == <<>>

\* the closure with a counter that label lines advance too
LoadLabelLineCounted(st, line) ==
    IF Len(line) < 2 THEN [st EXCEPT !.line_num = @ + 1]
    ELSE IF line[2] # <<":">> THEN [st EXCEPT !.line_num = @ + 1]
    ELSE [st EXCEPT !.label_table = MapInsert(@, line[1], st.line_num),
                    !.line_num = @ + 1]

\* the closure of load_label's for_each, on one line
LoadLabelLine(st, line) ==
    IF Len(line) < 2 THEN [st EXCEPT !.line_num = @ + 1]
    ELSE IF line[2] # <<":">> THEN [st EXCEPT !.line_num = @ + 1]
    ELSE [st EXCEPT !.label_table = MapInsert(@, line[1], st.line_num)]

RECURSIVE LoadLabelLines(_, _, _, _)
\* load_label's for_each over the lines lo..hi, in order
LoadLabelLines(code, lo, hi, st) ==
    IF lo > hi THEN st
    ELSE IF lo = hi THEN LoadLabelLine(st, code[lo])
    ELSE LET mid == (lo + hi) \div 2
             first == LoadLabelLines(code, lo, mid, st)
         \* (the test only orders the evaluation: the first half, then the second)
         IN  IF first.line_num < 0 THEN first
             ELSE LoadLabelLines(code, mid + 1, hi, first)

\* load_label: the label table it leaves in its parameter label_table,
\* here table
load_label(code, table) ==
    LoadLabelLines(code, 1, Len(code),
                   [line_num |-> 0, label_table |-> MapClear(table)]).label_table

\* the body that skips a line only when it is a label and a colon alone
LoadInstLineExact(st, line) ==
    IF st.ret # Ok THEN st
    ELSE IF Len(line) = 2 /\ line[2] = <<":">> THEN st
    ELSE LET r == from_line(line)
         IN  IF r.ok THEN [st EXCEPT !.inst_memory = Append(@, r.op)]
             ELSE [st EXCEPT !.ret = r.err]

\* the body of load_inst's for loop, on one line; once an error was
\* returned the loop is over
LoadInstLine(st, line) ==
    IF st.ret # Ok THEN st
    ELSE IF Len(line) >= 2 /\ line[2] = <<":">> THEN st
    ELSE LET r == from_line(line)
         IN  IF r.ok THEN [st EXCEPT !.inst_memory = Append(@, r.op)]
             ELSE [st EXCEPT !.ret = r.err]

RECURSIVE LoadInstLines(_, _, _, _)
\* load_inst's for loop over the lines lo..hi, in order
LoadInstLines(code, lo, hi, st) ==
    IF lo > hi THEN st
    ELSE IF lo = hi THEN LoadInstLine(st, code[lo])
    ELSE LET mid == (lo + hi) \div 2
             first == LoadInstLines(code, lo, mid, st)
         IN  IF first.ret # Ok THEN first
             ELSE LoadInstLines(code, mid + 1, hi, first)

\* load_inst: [ret, inst_memory], the Result and the memory it leaves in
\* its parameter inst_memory, here memory
load_inst(code, memory) ==
    LoadInstLines(code, 1, Len(code), [ret |-> Ok, inst_memory |-> VecClear(memory)])

(***************************************************************************)
(* vm.rs: PicocVm.  The engine is the record self of its fields; input is  *)
(* the sequence of the lines left in the input stream, output the bytes    *)
(* written so far.  An operation yields [self, ret, panic]: the engine it  *)
(* leaves, the Result it returns, and the panic that ended it ("none"      *)
(* when it returned).  oc tells whether the build checks integer overflow  *)
(* (Cargo's dev profile does, its release profile does not).               *)
(***************************************************************************)
NoPanic == "none"
Returns(self, ret) == [self |-> self, ret |-> ret, panic |-> NoPanic]
Panics(self, msg) == [self |-> self, ret |-> Ok, panic |-> msg]
Failed(r) == r.panic # NoPanic \/ r.ret # Ok

\* usize as i32 and i32 as usize, on the representation
AsI32(u) == u
AsUsize(i) == i

\* self.stack[i], for 0 <= i < VM_STACK_SIZE
StackGet(stack, i) == IF i \in DOMAIN stack THEN stack[i] ELSE 0

\* self.stack[i] = v, for 0 <= i < VM_STACK_SIZE
StackSet(stack, i, v) ==
    IF v = 0 THEN [j \in DOMAIN stack \ {i} |-> stack[j]]
    ELSE [j \in DOMAIN stack \cup {i} |-> IF j = i THEN v ELSE stack[j]]

\* vec![0; VM_STACK_SIZE]
ZeroStack == [j \in {} |-> 0]

\* PicocVm::new
new(input, output) ==
    [inst_memory |-> <<>>,
     stack |-> ZeroStack,
     label_table |-> MapClear(<<>>),
     reg |-> [pc |-> 0, sp |-> VM_STACK_SIZE, fp |-> VM_STACK_SIZE],
     is_halted |-> FALSE,
     input |-> input,
     output |-> output]

\* PicocVm::push
push(self, data, oc) ==
    IF self.is_halted THEN Returns(self, Err("VmHalted"))
    ELSE IF self.reg.sp = 0 /\ oc THEN Panics(self, "attempt to subtract with overflow")
    ELSE LET sp == self.reg.sp - 1      \* 0 - 1 wraps to usize::MAX
             s1 == [self EXCEPT !.reg.sp = sp]
         IN  IF UsizeGe(sp, VM_STACK_SIZE) THEN Returns(s1, Err("StackOverflow"))
             ELSE Returns([s1 EXCEPT !.stack = StackSet(@, sp, data)], Ok)

\* PicocVm::pop: [self, ret, panic, val]
pop(self) ==
    IF self.is_halted THEN Returns(self, Err("VmHalted")) @@ [val |-> 0]
    ELSE IF UsizeGe(self.reg.sp, VM_STACK_SIZE)
         THEN Returns(self, Err("StackUnderflow")) @@ [val |-> 0]
    ELSE Returns([self EXCEPT !.reg.sp = @ + 1], Ok)
             @@ [val |-> StackGet(self.stack, self.reg.sp)]

\* self.reg.pc += 1
IncPc(self) == [self EXCEPT !.reg.pc = @ + 1]

\* self.reg.X as i32 + n: [panic, val]
RegPlus(r, n, oc) ==
    IF oc /\ AddOverflows(AsI32(r), n)
    THEN [panic |-> "attempt to add with overflow", val |-> 0]
    ELSE [panic |-> NoPanic, val |-> WrapAdd(AsI32(r), n)]

TargetOutOfBound(target) == target < 0 \/ target >= VM_STACK_SIZE

ExecPushl(self, n, oc) ==
    LET target == RegPlus(self.reg.fp, n, oc)
    IN  IF target.panic # NoPanic THEN Panics(self, target.panic)
        ELSE IF TargetOutOfBound(target.val) THEN Returns(self, Err("StackOutOfBound"))
        ELSE LET elem == StackGet(self.stack, AsUsize(target.val))
                 p == push(self, elem, oc)
             IN  IF Failed(p) THEN p ELSE Returns(IncPc(p.self), Ok)

\* self.stack[target as usize] = self.stack[self.reg.sp]
StoreTop(self, target) ==
    IF UsizeGe(self.reg.sp, VM_STACK_SIZE)
    THEN Panics(self, "index out of bounds")
    ELSE Returns(IncPc([self EXCEPT !.stack =
                   StackSet(@, AsUsize(target), StackGet(self.stack, self.reg.sp))]), Ok)

ExecStorel(self, n, oc) ==
    LET target == RegPlus(self.reg.fp, n, oc)
    IN  IF target.panic # NoPanic THEN Panics(self, target.panic)
        ELSE IF TargetOutOfBound(target.val) THEN Returns(self, Err("StackOutOfBound"))
        ELSE StoreTop(self, target.val)

ExecStoret(self, n, oc) ==
    LET target == RegPlus(self.reg.sp, n, oc)
    IN  IF target.panic # NoPanic THEN Panics(self, target.panic)
        ELSE IF TargetOutOfBound(target.val) THEN Returns(self, Err("StackOutOfBound"))
        ELSE StoreTop(self, target.val)

ExecPushi(self, d, oc) ==
    LET p == push(self, d, oc)
    IN  IF Failed(p) THEN p ELSE Returns(IncPc(p.self), Ok)

ExecCall(self, label, oc) ==
    LET previous_pc == AsI32(self.reg.pc)
        s1 == IF label \in DOMAIN self.label_table
              THEN [self EXCEPT !.reg.pc = self.label_table[label]]
              ELSE self
    IN  push(s1, previous_pc + 1, oc)

ExecRet(self) ==
    LET p == pop(self)
    IN  IF Failed(p) THEN Returns(p.self, p.ret)
        ELSE Returns([p.self EXCEPT !.reg.pc = AsUsize(p.val)], Ok)

ExecEnter(self, oc) ==
    LET p == push(self, AsI32(self.reg.fp), oc)
    IN  IF Failed(p) THEN p
        ELSE Returns(IncPc([p.self EXCEPT !.reg.fp = p.self.reg.sp]), Ok)

\* Leave without self.reg.sp = self.reg.fp
ExecLeaveAtSp(self) ==
    LET p == pop(self)
    IN  IF Failed(p) THEN Returns(p.self, p.ret)
        ELSE Returns(IncPc([p.self EXCEPT !.reg.fp = AsUsize(p.val)]), Ok)

ExecLeave(self) ==
    LET s1 == [self EXCEPT !.reg.sp = self.reg.fp]
        p == pop(s1)
    IN  IF Failed(p) THEN Returns(p.self, p.ret)
        ELSE Returns(IncPc([p.self EXCEPT !.reg.fp = AsUsize(p.val)]), Ok)

ExecMvsp(self, n, oc) ==
    LET t == RegPlus(self.reg.sp, n, oc)
    IN  IF t.panic # NoPanic THEN Panics(self, t.panic)
        ELSE Returns(IncPc([self EXCEPT !.reg.sp = AsUsize(t.val)]), Ok)

ExecJp(self, label) ==
    IF label \in DOMAIN self.label_table
    THEN Returns([self EXCEPT !.reg.pc = self.label_table[label]], Ok)
    ELSE Returns(self, ErrWith("LabelNotFound", label))

\* Jt and Jf that pop before they look the label up
ExecJcondPopFirst(self, label, when) ==
    LET p == pop(self)
    IN  IF Failed(p) THEN Returns(p.self, p.ret)
        ELSE IF label \notin DOMAIN self.label_table
             THEN Returns(p.self, ErrWith("LabelNotFound", label))
        ELSE IF (p.val # 0) = when
             THEN Returns([p.self EXCEPT !.reg.pc = self.label_table[label]], Ok)
             ELSE Returns(IncPc(p.self), Ok)

\* Jt and Jf that read the top cell and leave it on the stack
ExecJcondKept(self, label, when) ==
    IF label \in DOMAIN self.label_table
    THEN LET num == self.label_table[label]
             p == pop(self)
         IN  IF Failed(p) THEN Returns(p.self, p.ret)
             ELSE IF (p.val # 0) = when
                  THEN Returns([self EXCEPT !.reg.pc = num], Ok)
                  ELSE Returns(IncPc(self), Ok)
    ELSE Returns(self, ErrWith("LabelNotFound", label))

\* Jt (when = TRUE: jump on a non-zero value) and Jf (when = FALSE)
ExecJcond(self, label, when) ==
    IF label \in DOMAIN self.label_table
    THEN LET num == self.label_table[label]
             p == pop(self)
         IN  IF Failed(p) THEN Returns(p.self, p.ret)
             ELSE IF (p.val # 0) = when
                  THEN Returns([p.self EXCEPT !.reg.pc = num], Ok)
                  ELSE Returns(IncPc(p.self), Ok)
    ELSE Returns(self, ErrWith("LabelNotFound", label))

\* t2 OP t1 of i32: [panic, val]
Arith(op, t2, t1, oc) ==
    LET val(v) == [panic |-> NoPanic, val |-> v]
        bool(b) == val(IF b THEN 1 ELSE 0)
        fault(msg) == [panic |-> msg, val |-> 0]
    IN  CASE op = "Add" -> IF oc /\ AddOverflows(t2, t1)
                           THEN fault("attempt to add with overflow")
                           ELSE val(WrapAdd(t2, t1))
          [] op = "Sub" -> IF oc /\ SubOverflows(t2, t1)
                           THEN fault("attempt to subtract with overflow")
                           ELSE val(WrapSub(t2, t1))
          [] op = "Mul" -> IF oc /\ MulOverflows(t2, t1)
                           THEN fault("attempt to multiply with overflow")
                           ELSE val(WrapMul(t2, t1))
          [] op = "Div" -> IF t1 = 0 THEN fault("attempt to divide by zero")
                           ELSE IF t2 = I32_MIN /\ t1 = -1
                                THEN fault("attempt to divide with overflow")
                           ELSE val(TruncDiv(t2, t1))
          [] op = "Mod" -> IF t1 = 0
                           THEN fault("attempt to calculate the remainder with a divisor of zero")
                           ELSE IF t2 = I32_MIN /\ t1 = -1
                                THEN fault("attempt to calculate the remainder with overflow")
                           ELSE val(TruncRem(t2, t1))
          [] op = "Eq" -> bool(t2 = t1)
          [] op = "Ne" -> bool(t2 # t1)
          [] op = "Gt" -> bool(t2 > t1)
          [] op = "Ge" -> bool(t2 >= t1)
          [] op = "Lt" -> bool(t2 < t1)
          [] op = "Le" -> bool(t2 <= t1)

BinaryOps == {"Add", "Sub", "Mul", "Div", "Mod", "Eq", "Ne", "Gt", "Ge", "Lt", "Le"}

\* the arms of Add .. Le with a fault of t2 OP t1 returned as an error,
\* the operands left on the stack
ExecBinaryChecked(self, op, oc) ==
    LET p1 == pop(self)
        p2 == pop(p1.self)
        v == Arith(op, p2.val, p1.val, oc)
        q == push(p2.self, v.val, oc)
    IN  IF Failed(p1) THEN Returns(p1.self, p1.ret)
        ELSE IF Failed(p2) THEN Returns(p2.self, p2.ret)
        ELSE IF v.panic # NoPanic THEN Returns(self, Err("StackOutOfBound"))
        ELSE IF Failed(q) THEN q
        ELSE Returns(IncPc(q.self), Ok)

\* the arms of Add .. Le with the operands exchanged: push t1 OP t2
ExecBinarySwapped(self, op, oc) ==
    LET p1 == pop(self)
        p2 == pop(p1.self)
        v == Arith(op, p1.val, p2.val, oc)
        q == push(p2.self, v.val, oc)
    IN  IF Failed(p1) THEN Returns(p1.self, p1.ret)
        ELSE IF Failed(p2) THEN Returns(p2.self, p2.ret)
        ELSE IF v.panic # NoPanic THEN Panics(p2.self, v.panic)
        ELSE IF Failed(q) THEN q
        ELSE Returns(IncPc(q.self), Ok)

\* the arms of Add .. Le: pop t1, pop t2, push t2 OP t1
ExecBinary(self, op, oc) ==
    LET p1 == pop(self)
        p2 == pop(p1.self)
        v == Arith(op, p2.val, p1.val, oc)
        q == push(p2.self, v.val, oc)
    IN  IF Failed(p1) THEN Returns(p1.self, p1.ret)
        ELSE IF Failed(p2) THEN Returns(p2.self, p2.ret)
        ELSE IF v.panic # NoPanic THEN Panics(p2.self, v.panic)
        ELSE IF Failed(q) THEN q
        ELSE Returns(IncPc(q.self), Ok)

\* BufRead::read_line: [line, input]; at the end of the stream the line is empty
read_line(input) ==
    IF input = <<>> THEN [line |-> <<>>, input |-> input]
    ELSE [line |-> Head(input), input |-> Tail(input)]

ExecRd(self, oc) ==
    LET s1 == [self EXCEPT !.output = @ \o <<"?", " ">>]
        rl == read_line(s1.input)
        s2 == [s1 EXCEPT !.input = rl.input]
        num == ParseI32(trim(rl.line))
        p == push(s2, num.val, oc)
    IN  IF ~num.ok THEN Returns(s2, Err("ParseIntError"))
        ELSE IF Failed(p) THEN p
        ELSE Returns(IncPc(p.self), Ok)

\* Wr without the trailing space
ExecWrBare(self) ==
    LET p == pop(self)
        content == I32ToString(p.val)
    IN  IF Failed(p) THEN Returns(p.self, p.ret)
        ELSE Returns(IncPc([p.self EXCEPT !.output = @ \o content]), Ok)

ExecWr(self) ==
    LET p == pop(self)
        content == I32ToString(p.val) \o <<" ">>
    IN  IF Failed(p) THEN Returns(p.self, p.ret)
        ELSE Returns(IncPc([p.self EXCEPT !.output = @ \o content]), Ok)

\* Wrln that goes on into the arm of Halt
ExecWrlnHalts(self) ==
    Returns(IncPc([self EXCEPT !.output = @ \o <<"\n">>, !.is_halted = TRUE]), Ok)

ExecWrln(self) == Returns(IncPc([self EXCEPT !.output = @ \o <<"\n">>]), Ok)

\* Halt that also drops the program
ExecHaltClears(self) ==
    Returns([self EXCEPT !.is_halted = TRUE, !.inst_memory = <<>>], Ok)

ExecHalt(self) == Returns([self EXCEPT !.is_halted = TRUE], Ok)

\* the match of step on the instruction at pc
Exec(self, op, oc) ==
    CASE op.op = "Pushl" -> ExecPushl(self, op.n, oc)
      [] op.op = "Storel" -> ExecStorel(self, op.n, oc)
      [] op.op = "Storet" -> ExecStoret(self, op.n, oc)
      [] op.op = "Pushi" -> ExecPushi(self, op.n, oc)
      [] op.op = "Call" -> ExecCall(self, op.label, oc)
      [] op.op = "Ret" -> ExecRet(self)
      [] op.op = "Enter" -> ExecEnter(self, oc)
      [] op.op = "Leave" -> ExecLeave(self)
      [] op.op = "Mvsp" -> ExecMvsp(self, op.n, oc)
      [] op.op = "Jp" -> ExecJp(self, op.label)
      [] op.op = "Jt" -> ExecJcond(self, op.label, TRUE)
      [] op.op = "Jf" -> ExecJcond(self, op.label, FALSE)
      [] op.op \in BinaryOps -> ExecBinary(self, op.op, oc)
      [] op.op = "Rd" -> ExecRd(self, oc)
      [] op.op = "Wr" -> ExecWr(self)
      [] op.op = "Wrln" -> ExecWrln(self)
      [] op.op = "Halt" -> ExecHalt(self)

\* step without its first test
HaltedCheckSkipped(self) == FALSE

\* the first test of step
HaltedCheck(self) == self.is_halted

\* the second test of step
PcOutOfBound(self) == UsizeGe(self.reg.pc, Len(self.inst_memory))

\* step without the reduction of pc
ReducePcSkipped(self) == self

\* self.reg.pc %= VM_INST_MEMORY_SIZE
ReducePc(self) == [self EXCEPT !.reg.pc = UsizeRem(@, VM_INST_MEMORY_SIZE)]

\* PicocVm::step
step(self, oc) ==
    IF HaltedCheck(self) THEN Returns(self, Err("VmHalted"))
    ELSE IF PcOutOfBound(self) THEN Returns(self, Err("MemoryOutOfBound"))
    ELSE LET r == Exec(self, self.inst_memory[self.reg.pc + 1], oc)
         IN  IF Failed(r) THEN r ELSE Returns(ReducePc(r.self), Ok)

(***************************************************************************)
(* The programs and the input streams the engine is given                  *)
(***************************************************************************)
Op0(k) == Mnemonic[k]
OpI(k, n) == Mnemonic[k] \o <<" ">> \o I32ToString(n)
OpL(k, label) == Mnemonic[k] \o <<" ">> \o label
Def(label) == label \o <<":">>
Text(lines) == [lines |-> lines, io_err |-> 0]

LMain == <<"m", "a", "i", "n">>
LStart == <<"_", "_", "s", "t", "a", "r", "t", "_", "_">>
LLoop == <<".", "L", "0">>
LEnd == <<"e", "n", "d">>
LNone == <<"n", "o", "n", "e">>

\* more lines than the instruction memory is meant to hold
LongProgram == Text([i \in 1..(VM_INST_MEMORY_SIZE + 1) |-> Op0("Halt")])

\* as many lines as the instruction memory holds, none of them a jump
FullProgram == Text([i \in 1..VM_INST_MEMORY_SIZE |-> OpI("Mvsp", 0)])

\* tests::arithmetic_operations
ArithmeticProgram ==
    Text(<<OpI("Pushi", 3), OpI("Pushi", 2), Op0("Add"), OpI("Pushi", 8),
           OpI("Pushi", 2), Op0("Sub"), Op0("Mul"), OpI("Pushi", 5), Op0("Div")>>)

\* tests::comparison_operations: the operand pair 4, 4 and chained results
ComparisonProgram ==
    Text(<<OpI("Pushi", 4), OpI("Pushi", 4), Op0("Gt"), OpI("Pushi", 4), OpI("Pushi", 4),
           Op0("Ge"), Op0("Lt"), OpI("Pushi", 1), Op0("Le")>>)

\* tests::give_labels_integers
LabelTest ==
    Text(<<<<"L", "0", ":">>,
           <<"p", "u", "s", "h", "i", " ", "1", "5">>,
           <<"j", "p", " ", "L", "1">>,
           <<"L", "1", ":">>,
           <<"w", "r">>,
           <<"L", "2", ":">>,
           <<"j", "p", " ", "L", "0">>>>)

\* two labels of one address, a label defined twice, labels after the last instruction
LabelText ==
    Text(<<<<"e", "n", "d", ":">>,
           <<".", "L", "0", ":">>,
           <<"w", "r", "l", "n">>,
           <<"e", "n", "d", ":">>,
           <<"h", "a", "l", "t">>,
           <<"m", "a", "i", "n", ":">>,
           <<"n", "o", "n", "e", ":">>>>)

Sources ==
    << ArithmeticProgram,
       \* the doc test of PicocVm::registers
       Text(<<Def(LStart), OpL("Call", LMain), Op0("Halt"), Def(LMain), Op0("Enter"),
              OpI("Pushi", I32_MAX), Op0("Leave"), Op0("Ret")>>),
       \* tests::io_operations
       Text(<<Op0("Rd"), Op0("Wr"), Op0("Wrln")>>),
       Text(<<Op0("Halt"), Op0("Wrln")>>),
       Text(<<OpI("Pushi", 7), OpI("Pushi", VM_INST_MEMORY_SIZE), Op0("Ret")>>),
       Text(<<OpI("Pushi", -1), Op0("Ret")>>),
       Text(<<OpI("Pushl", -1), Op0("Wr"), OpI("Mvsp", -2), Op0("Wr")>>),
       Text(<<OpI("Mvsp", 1), OpI("Pushi", 1), Op0("Ret")>>),
       Text(<<OpI("Mvsp", -VM_STACK_SIZE), OpI("Pushi", 1), Op0("Enter")>>),
       Text(<<OpI("Storet", -1)>>),
       Text(<<OpI("Storel", -1)>>),
       Text(<<OpI("Pushi", 5), OpI("Storet", 1), OpI("Storel", -2), OpI("Storel", -1),
              OpI("Storet", 0), OpI("Pushl", 0), OpI("Storel", 0), OpI("Storet", -VM_STACK_SIZE)>>),
       Text(<<Op0("Enter"), OpI("Pushi", 2 * VM_STACK_SIZE), OpI("Storel", 0),
              Op0("Leave"), OpI("Mvsp", 1), OpI("Pushl", -VM_STACK_SIZE)>>),
       Text(<<OpL("Jp", LEnd), Op0("Wrln"), Def(LEnd)>>),
       Text(<<Def(LLoop), OpI("Pushi", 1), OpL("Jt", LLoop)>>),
       Text(<<OpI("Pushi", 0), OpL("Jf", LEnd), Op0("Wrln"), Def(LEnd), OpL("Jt", LNone)>>),
       Text(<<OpL("Call", LNone), Op0("Wrln"), OpL("Jp", LNone)>>),
       Text(<<OpI("Pushi", 1), OpI("Pushi", 0), Op0("Div")>>),
       Text(<<OpI("Pushi", 4), Op0("Add")>>),
       Text(<<OpI("Pushl", I32_MAX)>>),
       LongProgram,
       \* tests::unknown_operation, tests::operand_not_found
       Text(<< <<"h", "o", "g", "e">> >>),
       Text(<<Op0("Pushi")>>),
       Text(<<Def(LEnd), Op0("Wrln"), OpI("Pushi", 1) \o <<"x">>, Op0("Halt")>>),
       [lines |-> <<Op0("Halt")>>, io_err |-> 2],
       \* a callee whose body pushes, moves sp and pops
       Text(<<OpL("Call", LMain), Op0("Halt"), Def(LMain), Op0("Enter"), OpI("Pushi", 1),
              OpI("Mvsp", -2), OpI("Pushi", 5), Op0("Wr"), Op0("Leave"), Op0("Ret")>>),
       ComparisonProgram,
       \* remainder of a negative dividend, equality, and a sum past i32::MAX
       Text(<<OpI("Pushi", -7), OpI("Pushi", 2), Op0("Mod"), OpI("Pushi", -1), Op0("Eq"),
              OpI("Pushi", I32_MAX), Op0("Ne"), OpI("Pushi", I32_MAX), Op0("Add")>>),
       LabelTest,
       LabelText,
       \* a call with sp past the end of the stack
       Text(<<OpI("Mvsp", 1), OpL("Call", LEnd), Def(LEnd)>>),
       \* conditional jumps that are not taken
       Text(<<OpI("Pushi", 0), OpL("Jt", LEnd), OpI("Pushi", 1), OpL("Jf", LEnd), Def(LEnd)>>),
       \* jumps to a label that is not defined
       Text(<<OpL("Jp", LNone)>>),
       Text(<<OpI("Pushi", 1), OpL("Jf", LNone)>>),
       \* a remainder with a divisor of zero
       Text(<<OpI("Pushi", 1), OpI("Pushi", 0), Op0("Mod")>>) >>

SourceIds == 1..Len(Sources)

InputStreams ==
    { << <<"-", "1", "2", "3", "\n">> >>,
      << <<" ", "7", "\n">>, <<"x", "\n">> >> }

(***************************************************************************)
(* The source texts the decoder is given: the decoder's own tests, lines   *)
(* with comments, blanks and colons, label definitions, and the one-line   *)
(* sources made of a first word (every mnemonic and some words that are    *)
(* none), spelled in three ways, with each of the operand texts            *)
(***************************************************************************)
\* tests::split_testcode, and a label followed by an instruction on its line
SplitTestCode ==
    Text(<<<<"L", "0", ":", "\n">>,
           <<"\n">>,
           <<"\t", "p", "u", "s", "h", "i", " ", "1", "0", "\n">>,
           <<"\t", "p", "u", "s", "h", "i", " ", " ", "5", "\n">>,
           <<"\t", "p", "u", "s", "h", "i", "\t", "7", "\n">>,
           <<"\t", "#", " ", "A", "d", "d", "i", "t", "i", "o", "n", "\n">>,
           <<" ", " ", " ", "\t", " ", "\n">>,
           <<"\t", "A", "D", "D", "\n">>,
           <<"\t", "m", "u", "l", "\n">>,
           <<"\t", "W", "r", " ", "#", " ", "P", "o", "p", " ", "a", "n", "d", " ", "w", "r", "i", "t", "e", " ", "a", " ", "v", "a", "l", "u", "e", "\n">>,
           <<"\t", "w", "r", "l", "n", "\n">>,
           <<"L", "1", ":", " ", "p", "u", "s", "h", "i", " ", "1", "0", " ", "#", " ", "c", "o", "m", "m", "e", "n", "t", "\n">>,
           <<"\t", "j", "p", " ", "L", "0">>>>)

\* words that end in a colon, hold one or are one; comments without a space
ColonText ==
    Text(<<<<"L", "0", ":", " ", "p", "u", "s", "h", "i", " ", "1", "0", " ", "#", " ", "c", "o", "m", "m", "e", "n", "t", "\n">>,
           <<"a", ":", "b", ":", " ", ":", " ", "x", ":", "#", " ", "c", "\n">>,
           <<"h", "a", "l", "t", "#", "w", "r", "l", "n", "\n">>,
           <<"#", "h", "a", "l", "t", "\n">>,
           <<"w", "r", "l", "n", " ", "#", " ", "a", " ", "#", " ", "b", ":", " ", "\n">>,
           <<"j", "p", " ", "L", "0", ":", " ", "\r", "\n">>,
           <<":", ":", "\n">>>>)

\* the variants of Opcode, in the order of the enum
Kinds ==
    <<"Pushl", "Storel", "Storet", "Pushi", "Call", "Ret", "Enter", "Leave", "Mvsp",
      "Jp", "Jt", "Jf", "Add", "Sub", "Mul", "Div", "Mod", "Eq", "Ne", "Gt", "Ge",
      "Lt", "Le", "Rd", "Wr", "Wrln", "Halt">>

\* the first words of the one-line sources
Words ==
    [i \in 1..Len(Kinds) |-> Mnemonic[Kinds[i]]]
    \o << <<"h", "o", "g", "e">>, <<"p", "u", "s", "h">>, <<"h", "a", "l", "t", "s">>,
          <<"w", "r", "_">> >>

\* the word w in lower case (v = 1), in upper case (v = 2), capitalised (v = 3)
Spelled(w, v) ==
    [i \in 1..Len(w) |->
        IF (v = 2 \/ (v = 3 /\ i = 1)) /\ \E k \in 1..26 : LowerCase[k] = w[i]
        THEN UpperCase[CHOOSE k \in 1..26 : LowerCase[k] = w[i]]
        ELSE w[i]]

\* the operand texts of the one-line sources; the first stands for no operand
Operands ==
    << <<>>, <<"5">>, <<"+", "5">>, <<"-", "0", "0", "7">>, <<"1", "x">>, <<"-">>,
       <<"L", "0">>, I32ToString(I32_MAX), I32ToString(I32_MIN),
       I32ToString(I32_MAX \div 10) \o <<"8">>, I32ToString(I32_MIN \div 10) \o <<"9">>,
       I32ToString(I32_MAX) \o <<"0">> >>

\* every first word in every spelling with every operand text
OneLineSources ==
    [i \in 1..(Len(Words) * 3 * Len(Operands)) |->
        LET o == ((i - 1) % Len(Operands)) + 1
            v == (((i - 1) \div Len(Operands)) % 3) + 1
            w == ((i - 1) \div (3 * Len(Operands))) + 1
        IN  Text(<<Spelled(Words[w], v)
                   \o (IF o = 1 THEN <<>> ELSE <<" ">> \o Operands[o])>>)]

\* the last of the three is a jump whose operand is a colon alone
DecoderSources ==
    <<SplitTestCode, ColonText, Text(<< <<"j", "p", " ", ":", "\n">> >>)>> \o OneLineSources

AllSources == Sources \o DecoderSources \o <<FullProgram>>
DecoderIds == (Len(Sources) + 1)..(Len(Sources) + Len(DecoderSources))
FullId == Len(AllSources)

(***************************************************************************)
(* The decoder's passes over each program, from an empty table and an      *)
(* empty memory.  Both passes clear their container and then only add to   *)
(* it, so what a pass leaves in the engine's container is that container   *)
(* cleared and extended by what the pass adds: the engine's load uses      *)
(* these tables, and a program is decoded once, not in every state.        *)
(***************************************************************************)
Tokenized == [k \in DOMAIN AllSources |-> split_code(AllSources[k])]
LabelPass == [k \in DOMAIN AllSources |-> load_label(Tokenized[k].lines, MapClear(<<>>))]
InstPass == [k \in DOMAIN AllSources |-> load_inst(Tokenized[k].lines, <<>>)]

\* HashMap::insert of every entry of added
MapInsertAll(map, added) ==
    [x \in DOMAIN map \cup DOMAIN added |-> IF x \in DOMAIN added THEN added[x] ELSE map[x]]

\* load_label(&lines, &mut self.label_table), for the lines of program k
LoadLabelInto(label_table, k) == MapInsertAll(MapClear(label_table), LabelPass[k])

\* load_inst(&lines, &mut self.inst_memory), for the lines of program k
LoadInstInto(inst_memory, k) ==
    [ret |-> InstPass[k].ret,
     inst_memory |-> VecClear(inst_memory) \o InstPass[k].inst_memory]

\* PicocVm::stack: [panic, val], the slice
\* &self.stack[stack_bottom..VM_STACK_SIZE], or the panic of a range that
\* starts after its end
stack_slice(self) ==
    LET stack_bottom == UsizeMin(self.reg.sp, self.reg.fp)
    IN  IF UsizeGe(stack_bottom, VM_STACK_SIZE + 1)
        THEN [panic |-> "slice index starts after its end", val |-> <<>>]
        ELSE [panic |-> NoPanic,
              val |-> [i \in 1..(VM_STACK_SIZE - stack_bottom) |->
                          StackGet(self.stack, stack_bottom + i - 1)]]

\* the assignments that end load
ResetRegisters(self) ==
    [self EXCEPT !.reg = [pc |-> 0, sp |-> VM_STACK_SIZE, fp |-> VM_STACK_SIZE],
                 !.is_halted = FALSE]

\* PicocVm::load, of program k
load(self, k) ==
    LET lines == Tokenized[k]
    IN  IF ~lines.ok THEN Returns(self, lines.err)
        ELSE LET s1 == [self EXCEPT !.label_table = LoadLabelInto(@, k)]
                 r == LoadInstInto(s1.inst_memory, k)
                 s2 == [s1 EXCEPT !.inst_memory = r.inst_memory]
             IN  IF r.ret # Ok THEN Returns(s2, r.ret)
                 ELSE Returns(ResetRegisters(s2), Ok)

\* the match of run_until_halt without the arm of MemoryOutOfBound
EndsRunOnlyHalted(err) == err.kind = "VmHalted"

\* the arms of run_until_halt's match that end the loop with Ok(())
EndsRun(err) == err.kind \in {"VmHalted", "MemoryOutOfBound"}

(***************************************************************************)
(* The state machine                                                       *)
(***************************************************************************)
MaxSteps == 9

VARIABLES
    inst_memory, stack, label_table, reg, is_halted, input, output,
    overflow_checks,    \* the build checks integer overflow
    panic,              \* the panic that ended the process, or "none"
    call,               \* the last operation called
    arg,                \* the program given to the last load (0: none yet)
    ret,                \* the Result the last operation returned
    step_ret,           \* the Result of the last step(), also inside run_until_halt
    running,            \* control is in the loop of run_until_halt
    fresh,              \* a second engine: created when the last load was called, it was
                        \* given that program only, the same calls and the same streams
    loaded,             \* load was called
    reloaded,           \* load was called again
    steps               \* the steps since the last load

vars == <<inst_memory, stack, label_table, reg, is_halted, input, output,
          overflow_checks, panic, call, arg, ret, step_ret, running, fresh, loaded, reloaded, steps>>

Self ==
    [inst_memory |-> inst_memory, stack |-> stack, label_table |-> label_table,
     reg |-> reg, is_halted |-> is_halted, input |-> input, output |-> output]

Becomes(self) ==
    /\ inst_memory' = self.inst_memory
    /\ stack' = self.stack
    /\ label_table' = self.label_table
    /\ reg' = self.reg
    /\ is_halted' = self.is_halted
    /\ input' = self.input
    /\ output' = self.output

Init ==
    /\ overflow_checks \in BOOLEAN
    /\ input \in InputStreams
    /\ output = <<>>
    /\ inst_memory = new(input, output).inst_memory
    /\ stack = new(input, output).stack
    /\ label_table = new(input, output).label_table
    /\ reg = new(input, output).reg
    /\ is_halted = new(input, output).is_halted
    /\ panic = NoPanic
    /\ call = "new"
    /\ arg = 0
    /\ ret = Ok
    /\ step_ret = Ok
    /\ running = FALSE
    /\ fresh = Returns(new(input, output), Ok)
    /\ loaded = FALSE
    /\ reloaded = FALSE
    /\ steps = 0

\* the second engine takes the same step, unless it is dead
FreshStep ==
    IF fresh.panic # NoPanic THEN fresh ELSE step(fresh.self, overflow_checks)

\* vm.load(code)
Load(k) ==
    /\ panic = NoPanic /\ ~running
    /\ ~reloaded
    /\ \E r \in {load(Self, k)} :
           /\ Becomes(r.self)
           /\ ret' = r.ret
           /\ panic' = r.panic
    /\ fresh' = load(new(input, output), k)
    /\ call' = "load"
    /\ arg' = k
    /\ loaded' = TRUE
    /\ reloaded' = loaded
    /\ steps' = 0
    /\ UNCHANGED <<overflow_checks, step_ret, running>>

\* vm.step()
Step ==
    /\ panic = NoPanic /\ ~running
    /\ steps < MaxSteps
    /\ \E r \in {step(Self, overflow_checks)} :
           /\ Becomes(r.self)
           /\ ret' = r.ret
           /\ step_ret' = r.ret
           /\ panic' = r.panic
    /\ fresh' = FreshStep
    /\ call' = "step"
    /\ steps' = steps + 1
    /\ UNCHANGED <<overflow_checks, arg, running, loaded, reloaded>>

\* vm.run_until_halt(): control enters the loop
RunUntilHalt ==
    /\ panic = NoPanic /\ ~running
    /\ steps < MaxSteps
    /\ running' = TRUE
    /\ call' = "run_until_halt"
    /\ UNCHANGED <<inst_memory, stack, label_table, reg, is_halted, input, output,
                   overflow_checks, panic, arg, ret, step_ret, fresh, loaded, reloaded,
                   steps>>

\* one turn of the loop of run_until_halt: match self.step()
RunTurn ==
    /\ panic = NoPanic /\ running
    /\ steps < MaxSteps
    /\ \E r \in {step(Self, overflow_checks)} :
           /\ Becomes(r.self)
           /\ step_ret' = r.ret
           /\ panic' = r.panic
           /\ IF r.panic # NoPanic \/ r.ret = Ok
              THEN UNCHANGED <<running, ret>>
              ELSE /\ running' = FALSE
                   /\ ret' = IF EndsRun(r.ret) THEN Ok ELSE r.ret
    /\ fresh' = FreshStep
    /\ steps' = steps + 1
    /\ UNCHANGED <<overflow_checks, call, arg, loaded, reloaded>>

Next ==
    \/ \E k \in SourceIds : Load(k)
    \/ Step
    \/ RunUntilHalt
    \/ RunTurn

Spec == Init /\ [][Next]_vars

\* the decoder alone: a new engine loads one of the decoder's source texts
DecodeNext == \E k \in DecoderIds : ~loaded /\ Load(k)

DecodeSpec == Init /\ [][DecodeNext]_vars

\* a full instruction memory: a new engine loads FullProgram and calls
\* run_until_halt, which is observed after some turns of its loop, few or
\* about as many as the instruction memory holds
MaxLongSteps == 10001
MaxNear == 20

LongTurns == {n \in 1..MaxLongSteps : n <= MaxNear \/ n + MaxNear > MaxLongSteps}

RECURSIVE Turns(_, _, _)
\* n turns of the loop of run_until_halt after the turns of t, fewer when a
\* call of step ends the loop; taken counts the calls of step
Turns(t, oc, n) ==
    IF n = 0 THEN t
    ELSE IF n = 1
         THEN IF Failed(t.last) THEN t
              ELSE [last |-> step(t.last.self, oc), taken |-> t.taken + 1]
         ELSE CHOOSE all \in {IF Failed(half.last) THEN half
                                 ELSE Turns(half, oc, n - (n \div 2)) :
                                     half \in {Turns(t, oc, n \div 2)}} : TRUE

\* vm.run_until_halt() right after load, up to the n-th turn of its loop
RunTurns(n) ==
    /\ panic = NoPanic /\ ~running
    /\ call = "load" /\ steps = 0
    /\ \E t \in {Turns([last |-> Returns(Self, Ok), taken |-> 0], overflow_checks, n)} :
           /\ Becomes(t.last.self)
           /\ step_ret' = t.last.ret
           /\ panic' = t.last.panic
           /\ steps' = t.taken
           /\ running' = (t.last.panic # NoPanic \/ t.last.ret = Ok)
           /\ ret' = IF t.last.panic # NoPanic \/ t.last.ret = Ok THEN ret
                     ELSE IF EndsRun(t.last.ret) THEN Ok ELSE t.last.ret
           /\ fresh' = IF fresh = Returns(Self, Ok) THEN t.last
                        ELSE Turns([last |-> fresh, taken |-> 0], overflow_checks, n).last
    /\ call' = "run_until_halt"
    /\ UNCHANGED <<overflow_checks, arg, loaded, reloaded>>

LongNext ==
    \/ ~loaded /\ Load(FullId)
    \/ \E n \in LongTurns : RunTurns(n)

LongSpec == Init /\ [][LongNext]_vars

(***************************************************************************)
(* The claims.  A transition with steps' = steps + 1 is one call of step,  *)
(* made by the caller or by the loop of run_until_halt; it executes an     *)
(* instruction when the engine is not halted and pc is an index of the     *)
(* instruction memory.                                                     *)
(***************************************************************************)
IsStep == steps' = steps + 1
Executes == ~is_halted /\ ~PcOutOfBound(Self)
Fetched == inst_memory[reg.pc + 1]
LoadedOk == call = "load" /\ ret = Ok

\* C1: while the engine is halted, a call of step fails with VmHalted and
\* changes neither pc, sp, fp, a stack cell, the instruction memory, the
\* label table, the output nor the halted flag; the flag is cleared only by
\* a load that returns Ok.
C1_HaltedUntilLoad ==
    [][is_halted =>
          /\ IsStep => (/\ panic' = NoPanic
                        /\ step_ret' = Err("VmHalted")
                        /\ UNCHANGED <<reg, stack, inst_memory, label_table, output,
                                       is_halted>>)
          /\ ~is_halted' => (call' = "load" /\ ret' = Ok)]_vars

\* a step called on a halted engine has returned VmHalted
C1_Witness == is_halted /\ call = "step" /\ ret = Err("VmHalted")

C3_LoadResets ==
    LoadedOk =>
        /\ reg = [pc |-> 0, sp |-> VM_STACK_SIZE, fp |-> VM_STACK_SIZE]
        /\ ~is_halted
        /\ inst_memory = InstPass[arg].inst_memory
        /\ label_table = LabelPass[arg]

\* a second load has returned Ok on an engine that ran another program
C3_Witness ==
    /\ LoadedOk /\ reloaded /\ stack # ZeroStack
    /\ inst_memory # <<>> /\ DOMAIN label_table # {}

\* C4: after a second load that succeeded, the engine and an engine created
\* for that load alone agree after every step on the registers, the
\* streams, the result of the step and the panic.
C4_NoResidue ==
    (reloaded /\ Tokenized[arg].ok /\ InstPass[arg].ret = Ok) =>
        /\ reg = fresh.self.reg
        /\ input = fresh.self.input /\ output = fresh.self.output
        /\ panic = fresh.panic
        /\ steps > 0 => step_ret = fresh.ret

\* C5: sp and fp are in 0..VM_STACK_SIZE in every state.
C5_RegistersInRange ==
    /\ reg.sp \in 0..VM_STACK_SIZE
    /\ reg.fp \in 0..VM_STACK_SIZE

\* C6: a step whose instruction pushes at sp = 0 returns StackOverflow and
\* one whose instruction pops at sp >= VM_STACK_SIZE returns StackUnderflow,
\* both without a change of the stack.
C6_PushFullPopEmpty ==
    [][(IsStep /\ Executes) =>
          LET op == Fetched
              pushes ==
                  \/ op.op \in {"Pushi", "Call", "Enter"}
                  \/ /\ op.op = "Pushl"
                     /\ ~AddOverflows(AsI32(reg.fp), op.n)
                     /\ ~TargetOutOfBound(AsI32(reg.fp) + op.n)
                  \/ op.op = "Rd" /\ ParseI32(trim(read_line(input).line)).ok
              pops ==
                  \/ op.op \in {"Ret", "Wr"} \cup BinaryOps
                  \/ op.op \in {"Jt", "Jf"} /\ op.label \in DOMAIN label_table
              fails(kind) ==
                  panic' = NoPanic /\ step_ret' = Err(kind) /\ stack' = stack
          IN  /\ (pushes /\ reg.sp = 0) => fails("StackOverflow")
              /\ (pops /\ UsizeGe(reg.sp, VM_STACK_SIZE)) => fails("StackUnderflow")
              /\ (op.op = "Leave" /\ UsizeGe(reg.fp, VM_STACK_SIZE)) =>
                     fails("StackUnderflow")]_vars

\* C7: a step of Pushl n, Storel n or Storet n whose target (fp + n, for
\* Storet sp + n) is outside 0..VM_STACK_SIZE - 1 returns StackOutOfBound
\* and changes neither a register nor a stack cell; a step of Storel or
\* Storet whose target is inside returns Ok, copies the cell at sp to the
\* target, adds one to pc and changes nothing else of registers and stack.
C7_FrameAccess ==
    [][(IsStep /\ Executes /\ Fetched.op \in {"Pushl", "Storel", "Storet"}) =>
          LET op == Fetched
              base == IF op.op = "Storet" THEN AsI32(reg.sp) ELSE AsI32(reg.fp)
              outside == AddOverflows(base, op.n) \/ TargetOutOfBound(base + op.n)
          IN  /\ outside =>
                     /\ panic' = NoPanic /\ step_ret' = Err("StackOutOfBound")
                     /\ UNCHANGED <<reg, stack>>
              /\ (~outside /\ op.op # "Pushl") =>
                     /\ panic' = NoPanic /\ step_ret' = Ok
                     /\ reg' = [reg EXCEPT !.pc = @ + 1]
                     /\ stack' = StackSet(stack, base + op.n, StackGet(stack, reg.sp))]_vars

\* C8: no step indexes the stack outside 0..VM_STACK_SIZE - 1.
C8_NoStackIndexFault == panic # "index out of bounds"

\* C9: when the instruction of a step that returns Ok sets pc to a value
\* that is no index of the instruction memory, pc is no index of the
\* instruction memory after the step either.
C9_InvalidPcStops ==
    [][(IsStep /\ Executes /\ panic' = NoPanic /\ step_ret' = Ok) =>
          LET r == Exec(Self, Fetched, overflow_checks)
          IN  PcOutOfBound(r.self) => UsizeGe(reg'.pc, Len(inst_memory'))]_vars

\* C10: when load has returned Ok, the instruction memory holds at most
\* VM_INST_MEMORY_SIZE instructions.
C10_InstMemoryBounded == LoadedOk => Len(inst_memory) <= VM_INST_MEMORY_SIZE

\* the instruction step would execute on self is op
AtOp(self, op) ==
    /\ ~HaltedCheck(self) /\ ~PcOutOfBound(self)
    /\ self.inst_memory[self.reg.pc + 1].op = op

MaxBody == 6

RECURSIVE RunBody(_, _, _, _)
\* the steps of a callee's body: from r, step until the instruction at pc
\* is the Leave of the frame at frame, a step fails or fuel steps are done
RunBody(r, frame, oc, fuel) ==
    IF Failed(r) \/ fuel = 0 THEN r
    ELSE IF AtOp(r.self, "Leave") /\ r.self.reg.fp = frame THEN r
    ELSE RunBody(step(r.self, oc), frame, oc, fuel - 1)

\* from self at a Call: the results of the call, of the callee's enter, of
\* its body, of its leave and of its ret
RoundTrip(self, oc) ==
    LET c == step(self, oc)
        e == step(c.self, oc)
        b == RunBody(e, e.self.reg.fp, oc, MaxBody)
        l == step(b.self, oc)
        t == step(l.self, oc)
    IN  [c |-> c, e |-> e, b |-> b, l |-> l, t |-> t]

\* self is at `call f` with f defined, the callee is enter; B; leave; ret,
\* B runs without error up to the leave and leaves the saved-fp cell and
\* the return-address cell as they were written
RoundTripShape(self, oc) ==
    /\ AtOp(self, "Call")
    /\ self.inst_memory[self.reg.pc + 1].label \in DOMAIN self.label_table
    /\ LET rt == RoundTrip(self, oc)
           frame == rt.e.self.reg.fp
       IN  /\ ~Failed(rt.c) /\ AtOp(rt.c.self, "Enter")
           /\ ~Failed(rt.e)
           /\ ~Failed(rt.b) /\ AtOp(rt.b.self, "Leave") /\ rt.b.self.reg.fp = frame
           /\ StackGet(rt.b.self.stack, frame) = AsI32(self.reg.fp)
           /\ StackGet(rt.b.self.stack, frame + 1) = self.reg.pc + 1
           /\ AtOp([rt.b.self EXCEPT !.reg.pc = @ + 1], "Ret")

\* C11: from a state at `call f` at pc = a whose callee is enter; B; leave;
\* ret as above: the leave succeeds and leaves fp as before the call and sp
\* at the return-address cell; the ret succeeds and leaves pc = a + 1 and
\* sp as before the call.
C11_CallReturnRoundTrip ==
    (panic = NoPanic /\ RoundTripShape(Self, overflow_checks)) =>
        LET rt == RoundTrip(Self, overflow_checks)
        IN  /\ ~Failed(rt.l)
            /\ rt.l.self.reg.fp = reg.fp
            /\ rt.l.self.reg.sp = reg.sp - 1
            /\ ~Failed(rt.t)
            /\ rt.t.self.reg.pc = reg.pc + 1
            /\ rt.t.self.reg.sp = reg.sp

\* the engine is at such a call, and the body leaves sp away from the frame
C11_Witness ==
    /\ panic = NoPanic /\ RoundTripShape(Self, overflow_checks)
    /\ RoundTrip(Self, overflow_checks).b.self.reg.sp
           # RoundTrip(Self, overflow_checks).b.self.reg.fp

\* the engine holds the program of source text as loaded last
Runs(text) == arg \in SourceIds /\ Sources[arg] = text

\* t2 OP t1 has a value, and the value is an i32
Defined(op, t2, t1) ==
    CASE op = "Add" -> ~AddOverflows(t2, t1)
      [] op = "Sub" -> ~SubOverflows(t2, t1)
      [] op = "Mul" -> ~MulOverflows(t2, t1)
      [] op \in {"Div", "Mod"} -> t1 # 0 /\ ~(t2 = I32_MIN /\ t1 = -1)
      [] OTHER -> TRUE

\* v is t2 OP t1: sum, difference, product, quotient and remainder
\* truncated toward zero, and 1 or 0 for the comparisons
IsResult(v, op, t2, t1) ==
    /\ Defined(op, t2, t1)
    /\ CASE op = "Add" -> v = t2 + t1
         [] op = "Sub" -> v = t2 - t1
         [] op = "Mul" -> v = t2 * t1
         [] op = "Div" -> v = TruncDiv(t2, t1)
         [] op = "Mod" -> v = t2 - t1 * TruncDiv(t2, t1)
         [] op = "Eq" -> v = (IF t2 = t1 THEN 1 ELSE 0)
         [] op = "Ne" -> v = (IF t2 # t1 THEN 1 ELSE 0)
         [] op = "Gt" -> v = (IF t2 > t1 THEN 1 ELSE 0)
         [] op = "Ge" -> v = (IF t2 >= t1 THEN 1 ELSE 0)
         [] op = "Lt" -> v = (IF t2 < t1 THEN 1 ELSE 0)
         [] op = "Le" -> v = (IF t2 <= t1 THEN 1 ELSE 0)

\* a step executes one of Add .. Le with at least two live cells
BinaryStep ==
    /\ IsStep /\ Executes /\ Fetched.op \in BinaryOps
    /\ reg.sp >= 0 /\ reg.sp <= VM_STACK_SIZE - 2

\* the step succeeds, sp is one more, the cell that held t2 holds t2 OP t1,
\* no other cell changes, fp is unchanged and pc is one more
BinaryEffect ==
    /\ panic' = NoPanic /\ step_ret' = Ok
    /\ reg'.sp = reg.sp + 1
    /\ reg'.fp = reg.fp
    /\ reg'.pc = (reg.pc + 1) % VM_INST_MEMORY_SIZE
    /\ IsResult(StackGet(stack', reg.sp + 1), Fetched.op,
                StackGet(stack, reg.sp + 1), StackGet(stack, reg.sp))
    /\ \A i \in (DOMAIN stack \cup DOMAIN stack') \ {reg.sp + 1} :
           StackGet(stack', i) = StackGet(stack, i)

Written(op) ==
    CASE op.op = "Rd" -> <<"?", " ">>
      [] op.op = "Wr" /\ ~UsizeGe(reg.sp, VM_STACK_SIZE) ->
             I32ToString(StackGet(stack, reg.sp)) \o <<" ">>
      [] op.op = "Wrln" -> <<"\n">>
      [] OTHER -> <<>>

\* C13: every step that executes an instruction appends to the output the
\* bytes of that instruction ("? " for Rd, also when the line read does not
\* parse; the decimal rendering of the popped value and a space for Wr; a
\* newline for Wrln; nothing for any other instruction), and nothing else
\* changes the output; an Rd that succeeds has consumed exactly the next
\* input line and pushed its value; rd, wr, wrln on the input "-123\n"
\* leaves the output "? -123 \n".
C13_OutputSequence ==
    /\ [][/\ output' = IF IsStep /\ Executes THEN output \o Written(Fetched) ELSE output
          /\ (IsStep /\ Executes /\ Fetched.op = "Rd" /\ panic' = NoPanic /\ step_ret' = Ok) =>
                 /\ input # <<>> /\ input' = Tail(input)
                 /\ reg'.sp = reg.sp - 1
                 /\ StackGet(stack', reg'.sp) = ParseI32(trim(Head(input))).val
          /\ (IsStep /\ Executes /\ Fetched.op # "Rd") => input' = input]_vars
    /\ []((/\ Runs(Text(<<Op0("Rd"), Op0("Wr"), Op0("Wrln")>>))
           /\ ~reloaded /\ steps = 3 /\ input = <<>>) =>
              output = <<"?", " ", "-", "1", "2", "3", " ", "\n">>)

\* rd, wr, wrln has run on the input "-123\n"
C13_Witness ==
    /\ Runs(Text(<<Op0("Rd"), Op0("Wr"), Op0("Wrln")>>))
    /\ ~reloaded /\ steps = 3 /\ input = <<>>
    /\ output = <<"?", " ", "-", "1", "2", "3", " ", "\n">>

\* for each program, the label names its label-definition lines define,
\* each with the number of the lines that are none before its last definition
LabelAddresses ==
    [k \in SourceIds |->
        LET lines == Tokenized[k].lines
            defs == {i \in 1..Len(lines) : Len(lines[i]) >= 2 /\ lines[i][2] = <<":">>}
            last(n) == CHOOSE i \in defs :
                           lines[i][1] = n /\ \A j \in defs : lines[j][1] = n => j <= i
        IN  [n \in {lines[i][1] : i \in defs} |->
                Cardinality({j \in 1..last(n) : j \notin defs})]]

\* C14: after load has run load_label, the label table holds exactly the
\* names of the label-definition lines of the program loaded, each with the
\* number of non-label lines before its last definition, and nothing of the
\* program loaded before; the program of give_labels_integers gives L0 = 0,
\* L1 = 2, L2 = 3, and two adjacent labels share an address, a label defined
\* twice has that of its last definition, trailing labels the instruction count.
C14_LabelAddresses ==
    /\ (call = "load" /\ Tokenized[arg].ok) => label_table = LabelAddresses[arg]
    /\ (call = "load" /\ Runs(LabelTest)) =>
           label_table = (<<"L", "0">> :> 0) @@ (<<"L", "1">> :> 2) @@ (<<"L", "2">> :> 3)
    /\ (call = "load" /\ Runs(LabelText)) =>
           label_table = (LEnd :> 1) @@ (LLoop :> 0) @@ (LMain :> 2) @@ (LNone :> 2)

\* the program of the label cases has replaced an earlier program
C14_Witness ==
    /\ call = "load" /\ reloaded /\ Runs(LabelText)
    /\ label_table = (LEnd :> 1) @@ (LLoop :> 0) @@ (LMain :> 2) @@ (LNone :> 2)

\* the token list of the raw line s, which has a character that is no
\* whitespace before its first '#': the maximal runs of such characters in
\* the text before the first '#', in order, a run that ends in ':' giving
\* the run without that ':' and then ":"
TokensOf(s) ==
    LET h == IF \E i \in 1..Len(s) : s[i] = "#"
             THEN CHOOSE i \in 1..Len(s) : s[i] = "#" /\ \A j \in 1..(i - 1) : s[j] # "#"
             ELSE Len(s) + 1
        starts == {i \in 1..(h - 1) :
                      ~is_whitespace(s[i]) /\ (i = 1 \/ is_whitespace(s[i - 1]))}
        end(i) == CHOOSE j \in i..(h - 1) :
                      /\ \A x \in i..j : ~is_whitespace(s[x])
                      /\ (j = h - 1 \/ is_whitespace(s[j + 1]))
        colon(i) == s[end(i)] = ":"
        \* the tokens that the runs before the run at i give
        before(i) == Cardinality({j \in starts : j < i})
                         + Cardinality({j \in starts : j < i /\ colon(j)})
        count == Cardinality(starts) + Cardinality({j \in starts : colon(j)})
    IN  [p \in 1..count |->
            LET i == CHOOSE j \in starts :
                         before(j) < p /\ p <= before(j) + (IF colon(j) THEN 2 ELSE 1)
            IN  IF ~colon(i) THEN SubSeq(s, i, end(i))
                ELSE IF p = before(i) + 1 THEN SubSeq(s, i, end(i) - 1)
                ELSE <<":">>]

\* for each source of the decoder, the token lists of its lines that have
\* a character that is no whitespace before their first '#', in order
TokenLists ==
    [k \in DecoderIds |->
        LET raw == AllSources[k].lines
            kept == {i \in 1..Len(raw) :
                        \E x \in 1..Len(raw[i]) :
                            /\ ~is_whitespace(raw[i][x]) /\ raw[i][x] # "#"
                            /\ \A y \in 1..(x - 1) : raw[i][y] # "#"}
        IN  [m \in 1..Cardinality(kept) |->
                TokensOf(raw[CHOOSE i \in kept : Cardinality({j \in kept : j < i}) = m - 1])]]

\* C15: split_code yields, in source order, one token list for each line
\* that has a non-whitespace character before its first '#' and none for
\* the other lines; the list is the text before the first '#' split on
\* whitespace, a token that ends in ':' replaced by the token without it
\* and ":"; "L0: pushi 10 # comment" gives "L0", ":", "pushi", "10".
C15_TokenLists ==
    call = "load" =>
        /\ Tokenized[arg] = [ok |-> TRUE, err |-> Ok, lines |-> TokenLists[arg]]
        /\ AllSources[arg] = ColonText =>
               Tokenized[arg].lines[1] =
                   <<<<"L", "0">>, <<":">>, <<"p", "u", "s", "h", "i">>, <<"1", "0">>>>

\* the source with the colons and comments is loaded: its three
\* instructions are in memory
C15_Witness ==
    /\ call = "load" /\ AllSources[arg] = ColonText /\ ret = Ok
    /\ inst_memory = <<[op |-> "Halt"], [op |-> "Wrln"], [op |-> "Jp", label |-> <<"L", "0">>]>>

\* the one line of the source loaded, when it has one line and that is no
\* label definition
OneLine ==
    /\ call = "load" /\ Len(Tokenized[arg].lines) = 1
    /\ ~(Len(Tokenized[arg].lines[1]) >= 2 /\ Tokenized[arg].lines[1][2] = <<":">>)

\* the text t without a leading '+', with "-0" for no digit other than 0
\* after a '-', and without the zeros before its other digits
Canonical(t) ==
    LET neg == t[1] = "-"
        from == IF t[1] \in {"+", "-"} THEN 2 ELSE 1
        nz == {i \in from..Len(t) : t[i] # "0"}
    IN  IF nz = {} THEN <<"0">>
        ELSE (IF neg THEN <<"-">> ELSE <<>>)
                 \o SubSeq(t, CHOOSE i \in nz : \A j \in nz : i <= j, Len(t))

\* t is a base-10 signed integer that fits 32 bits: an optional sign, at
\* least one digit, and at most the digits of i32::MAX or of i32::MIN
IsI32Text(t) ==
    /\ Len(t) >= 1
    /\ LET from == IF t[1] \in {"+", "-"} THEN 2 ELSE 1
           c == Canonical(t)
           bound == IF c[1] = "-" THEN I32ToString(I32_MIN) ELSE I32ToString(I32_MAX)
       IN  /\ from <= Len(t)
           /\ \A i \in from..Len(t) : IsDigit(t[i])
           /\ \/ Len(c) < Len(bound)
              \/ /\ Len(c) = Len(bound)
                 /\ \A i \in 1..Len(c) :
                        (\A j \in 1..(i - 1) : c[j] = bound[j]) =>
                            (c[i] = "-" \/ DigitVal(c[i]) <= DigitVal(bound[i]))

\* C16: a line of pushl, storel, storet, pushi or mvsp without a second
\* token makes load fail with OperandNotFound, one whose second token is
\* no base-10 signed integer fitting 32 bits with ParseIntError, and any
\* other loads as the instruction with the integer the token denotes; a
\* line of call, jp, jt or jf without a second token makes load fail with
\* OperandNotFound, and any other loads as the instruction with the second
\* token as its label, whether or not the label is defined.
C16_Operands ==
    OneLine =>
        LET line == Tokenized[arg].lines[1]
            kind == CHOOSE k \in DOMAIN Mnemonic : Mnemonic[k] = to_lowercase(line[1])
        IN  /\ (\E k \in I32Operand : Mnemonic[k] = to_lowercase(line[1])) =>
                   IF Len(line) < 2 THEN ret = Err("OperandNotFound")
                   ELSE IF ~IsI32Text(line[2]) THEN ret = Err("ParseIntError")
                   ELSE /\ ret = Ok
                        /\ Len(inst_memory) = 1 /\ inst_memory[1].op = kind
                        /\ I32ToString(inst_memory[1].n) = Canonical(line[2])
            /\ (\E k \in LabelOperand : Mnemonic[k] = to_lowercase(line[1])) =>
                   IF Len(line) < 2 THEN ret = Err("OperandNotFound")
                   ELSE /\ ret = Ok
                        /\ inst_memory = <<[op |-> kind, label |-> line[2]]>>
                        /\ line[2] \notin DOMAIN label_table

\* "MVSP -2147483648" is loaded as Mvsp(i32::MIN)
C16_Witness ==
    /\ OneLine /\ ret = Ok
    /\ Tokenized[arg].lines[1] = <<<<"M", "V", "S", "P">>, I32ToString(I32_MIN)>>
    /\ inst_memory = <<[op |-> "Mvsp", n |-> I32_MIN]>>

\* C17: the first token of a line selects the instruction kind without
\* regard to case, and a first token that matches no mnemonic makes load
\* fail with UnknownOpcode carrying the token as it is written in the source.
C17_OpcodeSelection ==
    OneLine =>
        LET line == Tokenized[arg].lines[1]
            kinds == {k \in DOMAIN Mnemonic : Mnemonic[k] = to_lowercase(line[1])}
        IN  IF kinds # {}
            THEN /\ ret.kind # "UnknownOpcode"
                 /\ ret = Ok => (Len(inst_memory) = 1 /\ inst_memory[1].op \in kinds)
            ELSE ret = ErrWith("UnknownOpcode", line[1])

\* C18: the halted flag goes from false to true only in a step that
\* executes Halt and returns Ok; it is false after new() and after every
\* load that succeeds.
C18_HaltedOnlyByHalt ==
    /\ [][(~is_halted /\ is_halted') =>
              /\ IsStep /\ Executes /\ Fetched.op = "Halt"
              /\ panic' = NoPanic /\ step_ret' = Ok]_vars
    /\ []((call = "new" \/ LoadedOk) => ~is_halted)

\* a step has executed Halt
C18_Witness ==
    /\ is_halted /\ steps > 0 /\ step_ret = Ok /\ panic = NoPanic
    /\ ~PcOutOfBound(Self) /\ Fetched.op = "Halt"

\* C19: in every state the engine reaches, stack() returns (it does not
\* fault), and what it returns are the cells from min(sp, fp) to
\* VM_STACK_SIZE - 1 in the order of their indices; right after a load
\* that succeeds it is empty.
C19_StackView ==
    panic = NoPanic =>
        /\ stack_slice(Self).panic = NoPanic
        /\ Len(stack_slice(Self).val) = VM_STACK_SIZE - UsizeMin(reg.sp, reg.fp)
        /\ \A i \in 1..Len(stack_slice(Self).val) :
               stack_slice(Self).val[i] = StackGet(stack, UsizeMin(reg.sp, reg.fp) + i - 1)
        /\ LoadedOk => stack_slice(Self).val = <<>>

\* C20: a step that executes Call of a label defined at t, at pc = a with
\* sp > 0, succeeds with pc = t, sp one less, a + 1 in the new top cell,
\* and fp and every other cell unchanged; a step that executes Enter with
\* sp > 0 pushes the old fp and sets fp to the new sp; three steps after
\* the load of call main; halt; main: enter; pushi 2147483647; leave; ret
\* pc = 4, sp = VM_STACK_SIZE - 3 and fp = VM_STACK_SIZE - 2.
C20_CallEnter ==
    /\ [][(IsStep /\ Executes /\ Fetched.op = "Call" /\ reg.sp # 0
               /\ Fetched.label \in DOMAIN label_table) =>
              /\ panic' = NoPanic /\ step_ret' = Ok
              /\ reg' = [pc |-> label_table[Fetched.label], sp |-> reg.sp - 1, fp |-> reg.fp]
              /\ StackGet(stack', reg'.sp) = reg.pc + 1
              /\ \A i \in (DOMAIN stack \cup DOMAIN stack') \ {reg'.sp} :
                     StackGet(stack', i) = StackGet(stack, i)]_vars
    /\ [][(IsStep /\ Executes /\ Fetched.op = "Enter" /\ reg.sp # 0) =>
              /\ panic' = NoPanic /\ step_ret' = Ok
              /\ reg' = [pc |-> reg.pc + 1, sp |-> reg.sp - 1, fp |-> reg.sp - 1]
              /\ StackGet(stack', reg'.sp) = AsI32(reg.fp)]_vars
    /\ []((/\ Runs(Text(<<Def(LStart), OpL("Call", LMain), Op0("Halt"), Def(LMain),
                          Op0("Enter"), OpI("Pushi", I32_MAX), Op0("Leave"), Op0("Ret")>>))
           /\ steps = 3) =>
              reg = [pc |-> 4, sp |-> VM_STACK_SIZE - 3, fp |-> VM_STACK_SIZE - 2])

\* C21: a step that executes Call of a label that is not in the label
\* table (with room on the stack) succeeds, pushes pc + 1, and leaves pc at
\* pc + 1, the instruction executed next.
C21_CallAbsentLabel ==
    [][(IsStep /\ Executes /\ Fetched.op = "Call" /\ Fetched.label \notin DOMAIN label_table
            /\ reg.sp > 0 /\ reg.sp <= VM_STACK_SIZE) =>
           /\ panic' = NoPanic /\ step_ret' = Ok
           /\ reg'.sp = reg.sp - 1 /\ reg'.fp = reg.fp
           /\ StackGet(stack', reg'.sp) = reg.pc + 1
           /\ reg'.pc = (reg.pc + 1) % VM_INST_MEMORY_SIZE]_vars

\* C22: a step that executes Jt or Jf of a label defined at t with a
\* non-empty stack succeeds, pops one cell v (sp is one more) and leaves
\* pc = t when v is nonzero (Jt) or zero (Jf) and pc + 1 otherwise; a step
\* that executes Jp of a label defined at t succeeds with pc = t and sp
\* unchanged; fp and every stack cell are unchanged by all three.
C22_Jumps ==
    [][(IsStep /\ Executes /\ Fetched.op \in {"Jp", "Jt", "Jf"}
            /\ Fetched.label \in DOMAIN label_table
            /\ (Fetched.op = "Jp" \/ (reg.sp >= 0 /\ reg.sp < VM_STACK_SIZE))) =>
           LET t == label_table[Fetched.label]
               v == StackGet(stack, reg.sp)
           IN  /\ panic' = NoPanic /\ step_ret' = Ok
               /\ stack' = stack /\ reg'.fp = reg.fp
               /\ Fetched.op = "Jp" => (reg'.pc = t /\ reg'.sp = reg.sp)
               /\ Fetched.op = "Jt" =>
                      (reg'.sp = reg.sp + 1 /\ reg'.pc = IF v # 0 THEN t ELSE reg.pc + 1)
               /\ Fetched.op = "Jf" =>
                      (reg'.sp = reg.sp + 1 /\ reg'.pc = IF v = 0 THEN t ELSE reg.pc + 1)]_vars

\* jt on 0 and then jf on 1 have both fallen through
C22_Witness ==
    /\ Runs(Text(<<OpI("Pushi", 0), OpL("Jt", LEnd), OpI("Pushi", 1), OpL("Jf", LEnd),
                   Def(LEnd)>>))
    /\ steps = 4 /\ step_ret = Ok /\ panic = NoPanic
    /\ reg = [pc |-> 4, sp |-> VM_STACK_SIZE, fp |-> VM_STACK_SIZE]

\* C23: a step that executes Jp, Jt or Jf of a label that is not in the
\* label table returns LabelNotFound with the label name and leaves pc, sp,
\* fp and the stack as they were: Jt and Jf pop no cell, and on an empty
\* stack the error is LabelNotFound, not StackUnderflow.
C23_LabelNotFound ==
    [][(IsStep /\ Executes /\ Fetched.op \in {"Jp", "Jt", "Jf"}
            /\ Fetched.label \notin DOMAIN label_table) =>
           /\ panic' = NoPanic
           /\ step_ret' = ErrWith("LabelNotFound", Fetched.label)
           /\ reg' = reg /\ stack' = stack]_vars

\* jf none has failed with a cell on the stack, which is still there
C23_Witness ==
    /\ Runs(Text(<<OpI("Pushi", 1), OpL("Jf", LNone)>>))
    /\ steps = 2 /\ step_ret = ErrWith("LabelNotFound", LNone) /\ panic = NoPanic
    /\ reg = [pc |-> 1, sp |-> VM_STACK_SIZE - 1, fp |-> VM_STACK_SIZE]

\* C24 as stated: after every successful step of an instruction other
\* than Call, Ret, Jp, Jt and Jf, Halt included, pc is (pc + 1) modulo
\* VM_INST_MEMORY_SIZE, and after every successful step pc is below
\* VM_INST_MEMORY_SIZE.
C24_PcAdvancesAlways ==
    [][(IsStep /\ Executes /\ panic' = NoPanic /\ step_ret' = Ok) =>
           /\ Fetched.op \notin {"Call", "Ret", "Jp", "Jt", "Jf"} =>
                  reg'.pc = (reg.pc + 1) % VM_INST_MEMORY_SIZE
           /\ reg'.pc >= 0 /\ reg'.pc < VM_INST_MEMORY_SIZE]_vars

\* C24, amended: after every successful step of an instruction other than
\* Call, Ret, Jp, Jt, Jf and Halt, pc is (pc + 1) modulo
\* VM_INST_MEMORY_SIZE; a successful Halt leaves pc as it was; and after
\* every successful step pc is below VM_INST_MEMORY_SIZE.
C24_PcAdvances ==
    [][(IsStep /\ Executes /\ panic' = NoPanic /\ step_ret' = Ok) =>
           /\ Fetched.op \notin {"Call", "Ret", "Jp", "Jt", "Jf", "Halt"} =>
                  reg'.pc = (reg.pc + 1) % VM_INST_MEMORY_SIZE
           /\ Fetched.op = "Halt" => reg'.pc = reg.pc
           /\ reg'.pc >= 0 /\ reg'.pc < VM_INST_MEMORY_SIZE]_vars

\* the halt at address 0 of halt; wrln has been executed, and pc is 0
C24_Witness ==
    /\ Runs(Text(<<Op0("Halt"), Op0("Wrln")>>))
    /\ steps = 1 /\ step_ret = Ok /\ panic = NoPanic /\ is_halted
    /\ reg.pc = 0

\* C25: after every load that succeeds, every value of the label table is
\* at most the length of the instruction memory, and for a label whose
\* value a is below that length the instruction at a is the one parsed
\* from the first non-label line after the last definition of the label;
\* so the call main of the registers program, which names a label defined
\* after it, leads to the enter that follows main:.
C25_LabelTargets ==
    /\ LoadedOk =>
           \A n \in DOMAIN label_table :
               LET lines == Tokenized[arg].lines
                   isdef(i) == Len(lines[i]) >= 2 /\ lines[i][2] = <<":">>
                   last == CHOOSE i \in 1..Len(lines) :
                               /\ isdef(i) /\ lines[i][1] = n
                               /\ \A j \in (i + 1)..Len(lines) : ~(isdef(j) /\ lines[j][1] = n)
                   after == {j \in (last + 1)..Len(lines) : ~isdef(j)}
               IN  /\ label_table[n] <= Len(inst_memory)
                   /\ label_table[n] < Len(inst_memory) =>
                          /\ after # {}
                          /\ inst_memory[label_table[n] + 1] =
                                 from_line(lines[CHOOSE j \in after : \A x \in after : j <= x]).op
                   /\ label_table[n] = Len(inst_memory) => after = {}
    /\ (/\ Runs(Text(<<Def(LStart), OpL("Call", LMain), Op0("Halt"), Def(LMain),
                       Op0("Enter"), OpI("Pushi", I32_MAX), Op0("Leave"), Op0("Ret")>>))
        /\ steps = 1 /\ step_ret = Ok) =>
           (reg.pc = 2 /\ Fetched = [op |-> "Enter"])

\* the registers program is loaded: main, defined after the call that
\* names it, is the address of the enter
C25_Witness ==
    /\ LoadedOk
    /\ Runs(Text(<<Def(LStart), OpL("Call", LMain), Op0("Halt"), Def(LMain),
                   Op0("Enter"), OpI("Pushi", I32_MAX), Op0("Leave"), Op0("Ret")>>))
    /\ label_table[LMain] = 2 /\ inst_memory[3] = [op |-> "Enter"]

\* C26: both passes treat a token list whose second token is ":" as a
\* label definition and nothing else, whatever tokens follow: it gives no
\* instruction, raises no error and does not advance the address counter;
\* every other token list is decoded as an instruction, also when it holds
\* a ":" elsewhere.  So load fails exactly when one of the other lists does
\* not parse, and otherwise the memory holds their instructions in order
\* and each label the number of them before its last definition.
C26_LabelLines ==
    call = "load" =>
        LET lines == Tokenized[arg].lines
            defs == {i \in 1..Len(lines) : Len(lines[i]) >= 2 /\ lines[i][2] = <<":">>}
            insts == (1..Len(lines)) \ defs
            before(i) == Cardinality({j \in insts : j < i})
        IN  IF \E i \in insts : ~from_line(lines[i]).ok
            THEN ret # Ok
            ELSE /\ ret = Ok
                 /\ Len(inst_memory) = Cardinality(insts)
                 /\ \A i \in insts : inst_memory[before(i) + 1] = from_line(lines[i]).op
                 /\ DOMAIN label_table = {lines[i][1] : i \in defs}
                 /\ \A i \in defs :
                        (\A j \in defs : lines[j][1] = lines[i][1] => j <= i) =>
                            label_table[lines[i][1]] = before(i)

\* the source of split_testcode with the line L1: pushi 10 is loaded: the
\* line gave the label L1 and no instruction
C26_Witness ==
    /\ call = "load" /\ AllSources[arg] = SplitTestCode /\ ret = Ok
    /\ label_table = (<<"L", "0">> :> 0) @@ (<<"L", "1">> :> 7)
    /\ Len(inst_memory) = 8
    /\ inst_memory[8] = [op |-> "Jp", label |-> <<"L", "0">>]

\* C27: a step that executes Div or Mod with two live cells and 0 in the
\* top cell does not return: the engine faults, after it has popped both
\* operands; when the step is a turn of run_until_halt, that call does not
\* return either, neither Ok nor an error.
C27_DivisionByZero ==
    [][(IsStep /\ Executes /\ Fetched.op \in {"Div", "Mod"}
            /\ reg.sp >= 0 /\ reg.sp <= VM_STACK_SIZE - 2
            /\ StackGet(stack, reg.sp) = 0) =>
           /\ panic' # NoPanic
           /\ reg' = [reg EXCEPT !.sp = @ + 2]
           /\ stack' = stack /\ ~is_halted'
           /\ running => (running' /\ call' = "run_until_halt" /\ ret' = ret)]_vars

\* run_until_halt has run pushi 1; pushi 0; mod and is dead in the mod
C27_Witness ==
    /\ Runs(Text(<<OpI("Pushi", 1), OpI("Pushi", 0), Op0("Mod")>>))
    /\ running /\ call = "run_until_halt" /\ steps = 3
    /\ panic # NoPanic
    /\ reg = [pc |-> 2, sp |-> VM_STACK_SIZE, fp |-> VM_STACK_SIZE]

\* C28: a step, a turn of run_until_halt and the entry of run_until_halt
\* leave the instruction memory and the label table as they are, whether
\* the step succeeds, fails or faults: both change only in a load.
C28_ProgramReadOnly ==
    [][(IsStep \/ (~running /\ running') \/ call' # "load") =>
           (inst_memory' = inst_memory /\ label_table' = label_table)]_vars

\* the program of give_labels_integers after six steps of its loop, its
\* four instructions and three labels as loaded
C28_Witness ==
    /\ Runs(LabelTest) /\ steps = 6 /\ step_ret = Ok
    /\ Len(inst_memory) = 4
    /\ label_table = (<<"L", "0">> :> 0) @@ (<<"L", "1">> :> 2) @@ (<<"L", "2">> :> 3)

\* C29: a step that returns an error leaves pc, sp, fp, every stack cell,
\* the halted flag and the output as they were before it.
C29_FailedStepNoEffect ==
    [][(IsStep /\ panic' = NoPanic /\ step_ret' # Ok) =>
           /\ reg' = reg /\ stack' = stack
           /\ is_halted' = is_halted /\ output' = output]_vars

\* C30: a load that returns an error leaves the instruction memory, the
\* label table, the registers and the halted flag as they were before it.
C30_FailedLoadNoEffect ==
    [][((loaded' # loaded \/ reloaded' # reloaded) /\ ret' # Ok) =>
           /\ inst_memory' = inst_memory /\ label_table' = label_table
           /\ reg' = reg /\ is_halted' = is_halted]_vars

\* run_vm: the condition of the driver's loop, while result.is_ok()
RunVmLoops(result) == result = Ok

\* run_vm: the match on the result that ended the driver's loop
RunVmResult(result) ==
    IF result = Ok \/ result.kind = "VmHalted" THEN Ok ELSE result

\* C31: the driver's loop and run_until_halt agree: both call step until it
\* returns an error, and when that error ends the loop of run_until_halt
\* the driver's loop ends too and the driver's match reports what
\* run_until_halt returns, Ok for Ok and the same error otherwise.
C31_DriverAgrees ==
    [][(running /\ ~running') =>
           (~RunVmLoops(step_ret') /\ ret' = RunVmResult(step_ret'))]_vars

\* the instruction memory holds no Call, Ret, Jp, Jt or Jf
StraightLine ==
    \A i \in 1..Len(inst_memory) :
        inst_memory[i].op \notin {"Call", "Ret", "Jp", "Jt", "Jf"}

\* C32: when run_until_halt runs a successfully loaded program without Call,
\* Ret, Jp, Jt and Jf, of any length, from its first instruction, there are
\* at most as many successful steps as loaded instructions, and pc has moved
\* strictly forward with every successful step while Halt has not executed.
C32_StraightLineTerminates ==
    (call = "run_until_halt" /\ StraightLine /\ panic = NoPanic) =>
        /\ (IF step_ret = Ok THEN steps ELSE steps - 1) <= Len(inst_memory)
        /\ (step_ret = Ok /\ ~is_halted) => reg.pc >= steps

\* C33: every instruction op that a successful load has put into the
\* instruction memory renders as its lowercase mnemonic, followed by one
\* space and the operand when it has one, and from_line on the
\* whitespace-split tokens of that text yields op again.
C33_RenderParseRoundTrip ==
    LoadedOk =>
        \A i \in 1..Len(inst_memory) :
            LET op == inst_memory[i]
                text == to_string(op)
            IN  /\ SubSeq(text, 1, Len(Mnemonic[op.op])) = Mnemonic[op.op]
                /\ to_lowercase(Mnemonic[op.op]) = Mnemonic[op.op]
                /\ op.op \in I32Operand =>
                       text = Mnemonic[op.op] \o <<" ">> \o I32ToString(op.n)
                /\ op.op \in LabelOperand =>
                       text = Mnemonic[op.op] \o <<" ">> \o op.label
                /\ op.op \notin I32Operand \cup LabelOperand => text = Mnemonic[op.op]
                /\ from_line(split_whitespace(text)) = [ok |-> TRUE, op |-> op]

\* C34: every token list split_code produces holds at least one token, so
\* no load fails with OpcodeNotFound; from_line returns that error for the
\* empty token list, which only a direct call can give it.
C34_TokenListsNonEmpty ==
    /\ from_line(<<>>) = [ok |-> FALSE, err |-> Err("OpcodeNotFound")]
    /\ call = "load" =>
           /\ \A i \in 1..Len(Tokenized[arg].lines) : Len(Tokenized[arg].lines[i]) >= 1
           /\ ret.kind # "OpcodeNotFound"

\* ColonText, with a line that is a comment only and lines that end in
\* blanks, was loaded
C34_Witness ==
    /\ call = "load" /\ AllSources[arg] = ColonText /\ ret = Ok
    /\ Len(Tokenized[arg].lines) < Len(ColonText.lines)
    /\ Len(inst_memory) > 0

====
